---- MODULE Spec2Model ----
(***************************************************************************)
(* Explicit-list allocator of el_malloc.c.                                 *)
(*                                                                         *)
(* The heap and the control page are byte-addressed memory.  Headers,      *)
(* footers and list links are read and written through that memory with   *)
(* the layout of el_blockhead_t / el_blockfoot_t, so within a call a stale *)
(* header or footer left behind by a merge is still there to be read.      *)
(* size_t values are kept as their signed representative modulo 2^64.      *)
(* Each public call is one atomic step (the allocator is single-threaded   *)
(* and never yields inside a call).                                        *)
(***************************************************************************)
EXTENDS Integers, Sequences, FiniteSets, TLC

VARIABLES el_ctl, mem, live, last

vars == <<el_ctl, mem, live, last>>

---------------------------------------------------------------------------
(* Layout and configuration (el_malloc.h)                                  *)

NULL == 0

\* sizeof(el_blockhead_t): size_t size; char state; next; prev
HeadBytes == 32
\* sizeof(el_blockfoot_t): size_t size
FootBytes == 8
OffSize  == 0
OffState == 8
OffNext  == 16
OffPrev  == 24

EL_BLOCK_OVERHEAD == HeadBytes + FootBytes

\* the page size, scaled down from 4096 so that a page holds few blocks
EL_PAGE_BYTES == 128

EL_AVAILABLE   == 97
EL_USED        == 117
EL_BEGIN_BLOCK == 66
EL_END_BLOCK   == 69
EL_UNINITIALIZED == 0 - 1

\* the two fixed mmap addresses, scaled down; the heap lies below *el_ctl
\* and cannot grow into it within MaxPages pages
EL_HEAP_START_ADDRESS == 4096
EL_CTL_START_ADDRESS  == 65536

\* Addresses of the sentinel headers inside *el_ctl
\* (heap_bytes, heap_start, heap_end, then avail_actual, used_actual).
ListBytes == 2 * HeadBytes + 32
AvailBeg == EL_CTL_START_ADDRESS + 24
AvailEnd == AvailBeg + HeadBytes
UsedBeg  == AvailBeg + ListBytes
UsedEnd  == UsedBeg + HeadBytes

Beg(list) == IF list = "avail" THEN AvailBeg ELSE UsedBeg
End(list) == IF list = "avail" THEN AvailEnd ELSE UsedEnd

---------------------------------------------------------------------------
(* Bounds of the model                                                     *)

\* initial heap sizes tried for EL_HEAP_INITIAL_SIZE
HeapInitialSizes == {296}
\* request sizes passed to el_malloc
ReqSizes == {50, 100}
\* outstanding allocations the caller holds at once
MaxLive == 3
\* whole pages the heap may come to hold
MaxPages == 3
\* steps allowed to a walk of a list or of the heap in a formula
MaxNodes == 12
\* calls of el_merge_block_with_above followed within one el_free
MaxCalls == 24

---------------------------------------------------------------------------
(* Memory                                                                  *)
(*                                                                         *)
(* s.mem.w8 maps the address of every 8-byte field (size_t, pointer) that  *)
(* holds a value to that value, s.mem.w1 the address of every state char   *)
(* to the char.  A byte that is no part of a live header, footer or        *)
(* sentinel when a call returns is payload (the caller's to overwrite) and *)
(* has no value (AtRest).  Reading a field that has no value stops TLC     *)
(* with an error, and so does a call that leaves two fields overlapping    *)
(* (Aligned) or a field outside the mapped regions (Mapped): a run that    *)
(* completes shows that no call does any of these.                         *)

Rd1(m, a) == m.w1[a]
Rd8(m, a) == m.w8[a]

Wr1(m, a, c) == [m EXCEPT !.w1 = (a :> c) @@ @]
Wr8(m, a, v) == [m EXCEPT !.w8 = (a :> v) @@ @]

\* no two fields that hold a value share a byte
Aligned(m) ==
    /\ \A a \in DOMAIN m.w8 : \A d \in 1 .. 7 : (a + d) \notin DOMAIN m.w8
    /\ \A c \in DOMAIN m.w1 : \A d \in 0 .. 7 : (c - d) \notin DOMAIN m.w8

\* every field that holds a value lies in the heap or in *el_ctl
Mapped(s) ==
    LET ok(a, w) == \/ (a >= s.ctl.heap_start /\ a + w <= s.ctl.heap_end)
                    \/ (a >= AvailBeg /\ a + w <= UsedEnd + HeadBytes)
    IN  /\ \A a \in DOMAIN s.mem.w8 : ok(a, 8)
        /\ \A a \in DOMAIN s.mem.w1 : ok(a, 1)

\* unsigned comparison of two 64-bit values given by signed representatives
UGe(a, b) == IF (a < 0) = (b < 0) THEN a >= b ELSE a < 0
ULt(a, b) == ~UGe(a, b)
ULe(a, b) == UGe(b, a)

\* field accessors, s = [ctl, mem, calls, over]
Size(s, b)   == Rd8(s.mem, b + OffSize)
State(s, b)  == Rd1(s.mem, b + OffState)
NextOf(s, b) == Rd8(s.mem, b + OffNext)
PrevOf(s, b) == Rd8(s.mem, b + OffPrev)
FootSize(s, f) == Rd8(s.mem, f)

SetSize(s, b, v)  == [s EXCEPT !.mem = Wr8(@, b + OffSize, v)]
SetState(s, b, c) == [s EXCEPT !.mem = Wr1(@, b + OffState, c)]
SetNext(s, b, p)  == [s EXCEPT !.mem = Wr8(@, b + OffNext, p)]
SetPrev(s, b, p)  == [s EXCEPT !.mem = Wr8(@, b + OffPrev, p)]
SetFootSize(s, f, v) == [s EXCEPT !.mem = Wr8(@, f, v)]

---------------------------------------------------------------------------
(* Pointer arithmetic                                                      *)

el_get_footer(s, head) == head + HeadBytes + Size(s, head)

el_get_header(s, foot) == foot - (HeadBytes + FootSize(s, foot))

el_block_above(s, block) ==
    LET higher == block + Size(s, block) + EL_BLOCK_OVERHEAD
    IN  IF UGe(higher, s.ctl.heap_end) THEN NULL ELSE higher

el_block_below(s, block) ==
    LET foot == block - FootBytes
    IN  IF ULe(foot, s.ctl.heap_start) THEN NULL
        ELSE block - (FootSize(s, foot) + EL_BLOCK_OVERHEAD)

---------------------------------------------------------------------------
(* Statements in sequence                                                  *)

\* F applied to the value of e: e is worked out once, before what follows
\* it, as a C statement is before the next one
Then(e, F(_)) == CHOOSE y \in {F(v) : v \in {e}} : TRUE

---------------------------------------------------------------------------
(* Block lists                                                             *)

el_init_blocklist(s, list) ==
    Then(SetState(s, Beg(list), EL_BEGIN_BLOCK), LAMBDA s1 :
    Then(SetSize(s1, Beg(list), EL_UNINITIALIZED), LAMBDA s2 :
    Then(SetState(s2, End(list), EL_END_BLOCK), LAMBDA s3 :
    Then(SetSize(s3, End(list), EL_UNINITIALIZED), LAMBDA s4 :
    Then(SetNext(s4, Beg(list), End(list)), LAMBDA s5 :
    Then(SetPrev(s5, Beg(list), NULL), LAMBDA s6 :
    Then(SetNext(s6, End(list), NULL), LAMBDA s7 :
    Then(SetPrev(s7, End(list), Beg(list)), LAMBDA s8 :
        [s8 EXCEPT !.ctl[list] = [length |-> 0, bytes |-> 0]]))))))))

\* faulty el_add_block_front: bytes grows by the payload size only
el_add_block_front_payload(s, list, block) ==
    Then(SetNext(s, block, NextOf(s, Beg(list))), LAMBDA s1 :
    Then(SetPrev(s1, NextOf(s1, block), block), LAMBDA s2 :
    Then(SetPrev(s2, block, Beg(list)), LAMBDA s3 :
    Then(SetNext(s3, PrevOf(s3, block), block), LAMBDA s4 :
        [s4 EXCEPT !.ctl[list] =
            [length |-> @.length + 1,
             bytes  |-> @.bytes + Size(s4, block)]]))))

el_add_block_front(s, list, block) ==
    Then(SetNext(s, block, NextOf(s, Beg(list))), LAMBDA s1 :
    Then(SetPrev(s1, NextOf(s1, block), block), LAMBDA s2 :
    Then(SetPrev(s2, block, Beg(list)), LAMBDA s3 :
    Then(SetNext(s3, PrevOf(s3, block), block), LAMBDA s4 :
        [s4 EXCEPT !.ctl[list] =
            [length |-> @.length + 1,
             bytes  |-> @.bytes + Size(s4, block) + EL_BLOCK_OVERHEAD]]))))

\* faulty el_remove_block: bytes shrinks by the payload size only
el_remove_block_payload(s, list, block) ==
    Then(SetPrev(s, NextOf(s, block), PrevOf(s, block)), LAMBDA s1 :
    Then(SetNext(s1, PrevOf(s1, block), NextOf(s1, block)), LAMBDA s2 :
        [s2 EXCEPT !.ctl[list] =
            [length |-> @.length - 1,
             bytes  |-> @.bytes - Size(s2, block)]]))

el_remove_block(s, list, block) ==
    Then(SetPrev(s, NextOf(s, block), PrevOf(s, block)), LAMBDA s1 :
    Then(SetNext(s1, PrevOf(s1, block), NextOf(s1, block)), LAMBDA s2 :
        [s2 EXCEPT !.ctl[list] =
            [length |-> @.length - 1,
             bytes  |-> @.bytes - (Size(s2, block) + EL_BLOCK_OVERHEAD)]]))

---------------------------------------------------------------------------
(* Allocation                                                              *)

\* the value standing for a search that never comes back (no pointer)
Hang == 0 - 1

\* faulty loop: block is not advanced, so a front node that does not fit is
\* tested for ever
FindLoop_stuck(s, block, size, fuel) ==
    IF NextOf(s, block) = End("avail") THEN NULL
    ELSE Then(NextOf(s, block), LAMBDA b :
             IF State(s, b) = EL_AVAILABLE /\ UGe(Size(s, b), size) THEN b
             ELSE Hang)

\* the loop of el_find_first_avail, entered with block = the node to test next
RECURSIVE FindLoop(_, _, _, _)
FindLoop(s, block, size, fuel) ==
    IF NextOf(s, block) = End("avail") THEN NULL
    ELSE IF fuel = 0 THEN Hang
    ELSE Then(NextOf(s, block), LAMBDA b :
         Then(fuel - 1, LAMBDA left :
             IF State(s, b) = EL_AVAILABLE /\ UGe(Size(s, b), size) THEN b
             ELSE FindLoop(s, b, size, left)))

\* faulty el_find_first_avail: takes the front node without the size test
el_find_first_avail_any(s, size) ==
    IF NextOf(s, Beg("avail")) = End("avail") THEN NULL
    ELSE NextOf(s, Beg("avail"))

\* faulty el_find_first_avail: the front node must be larger than asked
el_find_first_avail_strict(s, size) ==
    IF NextOf(s, Beg("avail")) = End("avail") THEN NULL
    ELSE Then(NextOf(s, Beg("avail")), LAMBDA b :
             IF /\ State(s, b) = EL_AVAILABLE
                /\ UGe(Size(s, b), size) /\ Size(s, b) # size
             THEN b
             ELSE FindLoop(s, b, size, MaxNodes))

\* faulty el_find_first_avail: the search starts behind the front node
el_find_first_avail_second(s, size) ==
    IF NextOf(s, Beg("avail")) = End("avail") THEN NULL
    ELSE FindLoop(s, NextOf(s, Beg("avail")), size, MaxNodes)

el_find_first_avail(s, size) == FindLoop(s, Beg("avail"), size, MaxNodes)

\* faulty el_split_block: the new block's size forgets the overhead
el_split_block_wide(s, block, size_NEW) ==
    IF ULt(Size(s, block), size_NEW + EL_BLOCK_OVERHEAD)
    THEN [s |-> s, ret |-> NULL]
    ELSE Then(el_get_footer(s, block), LAMBDA foot :
         Then(Size(s, block), LAMBDA size_OLD :
         Then(SetSize(s, block, size_NEW), LAMBDA s1 :
         Then(el_get_footer(s1, block), LAMBDA foot_NEW :
         Then(SetFootSize(s1, foot_NEW, size_NEW), LAMBDA s2 :
         Then(el_block_above(s2, block), LAMBDA block_NEW :
         Then(SetSize(s2, block_NEW, size_OLD - size_NEW), LAMBDA s3 :
         Then(SetState(s3, block_NEW, EL_AVAILABLE), LAMBDA s4 :
         Then(SetFootSize(s4, foot, Size(s4, block_NEW)), LAMBDA s5 :
             [s |-> s5, ret |-> block_NEW])))))))))

\* faulty el_split_block: the old footer keeps the old size
el_split_block_stale(s, block, size_NEW) ==
    IF ULt(Size(s, block), size_NEW + EL_BLOCK_OVERHEAD)
    THEN [s |-> s, ret |-> NULL]
    ELSE Then(Size(s, block), LAMBDA size_OLD :
         Then(SetSize(s, block, size_NEW), LAMBDA s1 :
         Then(el_get_footer(s1, block), LAMBDA foot_NEW :
         Then(SetFootSize(s1, foot_NEW, size_NEW), LAMBDA s2 :
         Then(el_block_above(s2, block), LAMBDA block_NEW :
         Then(SetSize(s2, block_NEW,
                      size_OLD - (size_NEW + EL_BLOCK_OVERHEAD)), LAMBDA s3 :
         Then(SetState(s3, block_NEW, EL_AVAILABLE), LAMBDA s4 :
             [s |-> s4, ret |-> block_NEW])))))))

\* [s |-> state after the call, ret |-> the new block or NULL]
el_split_block(s, block, size_NEW) ==
    IF ULt(Size(s, block), size_NEW + EL_BLOCK_OVERHEAD)
    THEN [s |-> s, ret |-> NULL]
    ELSE Then(el_get_footer(s, block), LAMBDA foot :
         Then(Size(s, block), LAMBDA size_OLD :
         Then(SetSize(s, block, size_NEW), LAMBDA s1 :
         Then(el_get_footer(s1, block), LAMBDA foot_NEW :
         Then(SetFootSize(s1, foot_NEW, size_NEW), LAMBDA s2 :
         Then(el_block_above(s2, block), LAMBDA block_NEW :
         Then(SetSize(s2, block_NEW,
                      size_OLD - (size_NEW + EL_BLOCK_OVERHEAD)), LAMBDA s3 :
         Then(SetState(s3, block_NEW, EL_AVAILABLE), LAMBDA s4 :
         Then(SetFootSize(s4, foot, Size(s4, block_NEW)), LAMBDA s5 :
             [s |-> s5, ret |-> block_NEW])))))))))

\* faulty el_malloc: the block is cut FootBytes larger than asked
el_malloc_padded(s, nbytes) ==
    Then(el_find_first_avail(s, nbytes), LAMBDA block :
        IF block = NULL \/ block = Hang THEN [s |-> s, ret |-> block]
        ELSE
        Then(el_remove_block(s, "avail", block), LAMBDA s1 :
        Then(el_split_block(s1, block, nbytes + FootBytes), LAMBDA sp :
        Then(IF sp.ret # NULL
             THEN el_add_block_front(sp.s, "avail", sp.ret)
             ELSE sp.s, LAMBDA s2 :
        Then(SetState(s2, block, EL_USED), LAMBDA s3 :
        Then(el_add_block_front(s3, "used", block), LAMBDA s4 :
            [s |-> s4, ret |-> block + HeadBytes]))))))

\* faulty el_malloc: the block split off is put in no list
el_malloc_lost(s, nbytes) ==
    Then(el_find_first_avail(s, nbytes), LAMBDA block :
        IF block = NULL \/ block = Hang THEN [s |-> s, ret |-> block]
        ELSE
        Then(el_remove_block(s, "avail", block), LAMBDA s1 :
        Then(el_split_block(s1, block, nbytes), LAMBDA sp :
        Then(SetState(sp.s, block, EL_USED), LAMBDA s3 :
        Then(el_add_block_front(s3, "used", block), LAMBDA s4 :
            [s |-> s4, ret |-> block + HeadBytes])))))

\* faulty el_malloc: the address of the header is returned
el_malloc_header(s, nbytes) ==
    Then(el_find_first_avail(s, nbytes), LAMBDA block :
        IF block = NULL \/ block = Hang THEN [s |-> s, ret |-> block]
        ELSE
        Then(el_remove_block(s, "avail", block), LAMBDA s1 :
        Then(el_split_block(s1, block, nbytes), LAMBDA sp :
        Then(IF sp.ret # NULL
             THEN el_add_block_front(sp.s, "avail", sp.ret)
             ELSE sp.s, LAMBDA s2 :
        Then(SetState(s2, block, EL_USED), LAMBDA s3 :
        Then(el_add_block_front(s3, "used", block), LAMBDA s4 :
            [s |-> s4, ret |-> block]))))))

\* faulty el_malloc: the block goes to the used list with its state unset
el_malloc_unmarked(s, nbytes) ==
    Then(el_find_first_avail(s, nbytes), LAMBDA block :
        IF block = NULL \/ block = Hang THEN [s |-> s, ret |-> block]
        ELSE
        Then(el_remove_block(s, "avail", block), LAMBDA s1 :
        Then(el_split_block(s1, block, nbytes), LAMBDA sp :
        Then(IF sp.ret # NULL
             THEN el_add_block_front(sp.s, "avail", sp.ret)
             ELSE sp.s, LAMBDA s2 :
        Then(el_add_block_front(s2, "used", block), LAMBDA s4 :
            [s |-> s4, ret |-> block + HeadBytes])))))

\* [s |-> state after the call, ret |-> the payload pointer, NULL or Hang]
el_malloc(s, nbytes) ==
    Then(el_find_first_avail(s, nbytes), LAMBDA block :
        IF block = NULL \/ block = Hang THEN [s |-> s, ret |-> block]
        ELSE
        Then(el_remove_block(s, "avail", block), LAMBDA s1 :
        Then(el_split_block(s1, block, nbytes), LAMBDA sp :
        Then(IF sp.ret # NULL
             THEN el_add_block_front(sp.s, "avail", sp.ret)
             ELSE sp.s, LAMBDA s2 :
        Then(SetState(s2, block, EL_USED), LAMBDA s3 :
        Then(el_add_block_front(s3, "used", block), LAMBDA s4 :
            [s |-> s4, ret |-> block + HeadBytes]))))))

---------------------------------------------------------------------------
(* De-allocation                                                           *)

\* s.calls counts the calls made; a call past MaxCalls is cut and sets s.over.
\* s.log records, in order, the allocator as it stands at each
\* el_remove_block(el_ctl->avail, block) of the merge ("remove") and around
\* each look at el_block_below(lower) and the call it leads to ("below")
Removing(s, block) ==
    [s EXCEPT !.log = Append(@, [ev |-> "remove", block |-> block,
                                 lowerer |-> NULL,
                                 ctl |-> s.ctl, mem |-> s.mem,
                                 ctl2 |-> s.ctl, mem2 |-> s.mem])]

Rechecked(s, lower, lowerer, out) ==
    [out EXCEPT !.log = Append(@, [ev |-> "below", block |-> lower,
                                   lowerer |-> lowerer,
                                   ctl |-> s.ctl, mem |-> s.mem,
                                   ctl2 |-> out.ctl, mem2 |-> out.mem])]

RECURSIVE el_merge_block_with_above(_, _)
\* faulty el_merge_block_with_above: higher is taken off the free list twice
\* and lower is left on it
el_merge_block_with_above_twice(s0, lower) ==
    IF s0.calls >= MaxCalls THEN [s0 EXCEPT !.over = TRUE]
    ELSE
    Then([s0 EXCEPT !.calls = @ + 1], LAMBDA s :
        IF lower = NULL THEN s
        ELSE IF State(s, lower) # EL_AVAILABLE THEN s
        ELSE
        Then(el_block_above(s, lower), LAMBDA higher :
            IF higher = NULL THEN s
            ELSE
            Then(IF State(s, higher) = EL_AVAILABLE
                 THEN
                 Then(el_remove_block(Removing(s, higher), "avail", higher),
                      LAMBDA s1 :
                 Then(el_remove_block(Removing(s1, higher), "avail", higher),
                      LAMBDA s2 :
                 Then(Size(s2, lower) + Size(s2, higher)
                      + EL_BLOCK_OVERHEAD, LAMBDA new_size :
                 Then(SetSize(s2, lower, new_size), LAMBDA s3 :
                 Then(SetFootSize(s3, el_get_footer(s3, lower), new_size),
                      LAMBDA s4 : s4)))))
                 ELSE s, LAMBDA merged : merged)))

el_merge_block_with_above(s0, lower) ==
    IF s0.calls >= MaxCalls THEN [s0 EXCEPT !.over = TRUE]
    ELSE
    Then([s0 EXCEPT !.calls = @ + 1], LAMBDA s :
        IF lower = NULL THEN s
        ELSE IF State(s, lower) # EL_AVAILABLE THEN s
        ELSE
        Then(el_block_above(s, lower), LAMBDA higher :
            IF higher = NULL THEN s
            ELSE
            Then(IF State(s, higher) = EL_AVAILABLE
                 THEN
                 Then(el_remove_block(Removing(s, higher), "avail", higher),
                      LAMBDA s1 :
                 Then(el_remove_block(Removing(s1, lower), "avail", lower),
                      LAMBDA s2 :
                 Then(Size(s2, lower) + Size(s2, higher)
                      + EL_BLOCK_OVERHEAD, LAMBDA new_size :
                 Then(SetSize(s2, lower, new_size), LAMBDA s3 :
                 Then(SetFootSize(s3, el_get_footer(s3, lower), new_size),
                      LAMBDA s4 :
                 Then(el_add_block_front(s4, "avail", lower), LAMBDA s5 :
                     el_merge_block_with_above(s5, lower)))))))
                 ELSE s, LAMBDA merged :
            Then(el_block_below(merged, lower), LAMBDA lowerer :
            Then(IF lowerer = NULL THEN merged
                 ELSE IF State(merged, lowerer) = EL_AVAILABLE
                      THEN el_merge_block_with_above(merged, lowerer)
                      ELSE merged, LAMBDA out :
                Rechecked(merged, lower, lowerer, out))))))

\* faulty el_free: the block is linked in front of the end sentinel of the
\* free list, not behind its begin sentinel
el_free_back(s, ptr) ==
    Then(ptr - HeadBytes, LAMBDA free :
    Then(el_remove_block(s, "used", free), LAMBDA s1 :
    Then(SetState(s1, free, EL_AVAILABLE), LAMBDA s2 :
    Then(SetPrev(s2, free, PrevOf(s2, End("avail"))), LAMBDA s3 :
    Then(SetNext(s3, PrevOf(s3, free), free), LAMBDA s4 :
    Then(SetNext(s4, free, End("avail")), LAMBDA s5 :
    Then(SetPrev(s5, End("avail"), free), LAMBDA s6 :
    Then([s6 EXCEPT !.ctl.avail =
             [length |-> @.length + 1,
              bytes  |-> @.bytes + Size(s6, free) + EL_BLOCK_OVERHEAD]],
         LAMBDA s7 :
        el_merge_block_with_above(s7, free)))))))))

el_free(s, ptr) ==
    Then(ptr - HeadBytes, LAMBDA free :
    Then(el_remove_block(s, "used", free), LAMBDA s1 :
    Then(SetState(s1, free, EL_AVAILABLE), LAMBDA s2 :
    Then(el_add_block_front(s2, "avail", free), LAMBDA s3 :
        el_merge_block_with_above(s3, free)))))

---------------------------------------------------------------------------
(* Heap expansion                                                          *)

\* what mmap(heap_end, new_size, ...) can answer
MmapOutcomes == {"at_heap_end", "MAP_FAILED", "elsewhere"}

\* faulty el_append_pages_to_heap: the new block gets no footer
el_append_pages_to_heap_nofoot(s, npages, mmap) ==
    IF mmap = "MAP_FAILED" THEN [s |-> s, ret |-> 1]
    ELSE IF mmap = "elsewhere" THEN [s |-> s, ret |-> 1]
    ELSE
    Then(npages * EL_PAGE_BYTES, LAMBDA new_size :
    Then(s.ctl.heap_end, LAMBDA new_heap_segment :
    Then([s EXCEPT !.ctl.heap_end = @ + new_size,
                   !.ctl.heap_bytes = @ + new_size], LAMBDA s1 :
    Then(new_heap_segment, LAMBDA new_block :
    Then(SetSize(s1, new_block, new_size - EL_BLOCK_OVERHEAD), LAMBDA s2 :
    Then(SetState(s2, new_block, EL_AVAILABLE), LAMBDA s3 :
    Then(el_add_block_front(s3, "avail", new_block), LAMBDA s5 :
    Then(el_block_below(s5, new_block), LAMBDA prev_block :
    Then(IF prev_block # NULL /\ State(s5, prev_block) = EL_AVAILABLE
         THEN el_merge_block_with_above(s5, prev_block)
         ELSE s5, LAMBDA s6 :
        [s |-> s6, ret |-> 0])))))))))

\* faulty el_append_pages_to_heap: heap_bytes is left as it was
el_append_pages_to_heap_uncounted(s, npages, mmap) ==
    IF mmap = "MAP_FAILED" THEN [s |-> s, ret |-> 1]
    ELSE IF mmap = "elsewhere" THEN [s |-> s, ret |-> 1]
    ELSE
    Then(npages * EL_PAGE_BYTES, LAMBDA new_size :
    Then(s.ctl.heap_end, LAMBDA new_heap_segment :
    Then([s EXCEPT !.ctl.heap_end = @ + new_size], LAMBDA s1 :
    Then(new_heap_segment, LAMBDA new_block :
    Then(SetSize(s1, new_block, new_size - EL_BLOCK_OVERHEAD), LAMBDA s2 :
    Then(SetState(s2, new_block, EL_AVAILABLE), LAMBDA s3 :
    Then(el_get_footer(s3, new_block), LAMBDA new_foot :
    Then(SetFootSize(s3, new_foot, Size(s3, new_block)), LAMBDA s4 :
    Then(el_add_block_front(s4, "avail", new_block), LAMBDA s5 :
    Then(el_block_below(s5, new_block), LAMBDA prev_block :
    Then(IF prev_block # NULL /\ State(s5, prev_block) = EL_AVAILABLE
         THEN el_merge_block_with_above(s5, prev_block)
         ELSE s5, LAMBDA s6 :
        [s |-> s6, ret |-> 0])))))))))))

\* faulty el_append_pages_to_heap: heap_end and heap_bytes move before the
\* address mmap answered is compared with the old heap_end
el_append_pages_to_heap_early(s, npages, mmap) ==
    IF mmap = "MAP_FAILED" THEN [s |-> s, ret |-> 1]
    ELSE
    Then(npages * EL_PAGE_BYTES, LAMBDA new_size :
    Then(s.ctl.heap_end, LAMBDA new_heap_segment :
    Then([s EXCEPT !.ctl.heap_end = @ + new_size,
                   !.ctl.heap_bytes = @ + new_size], LAMBDA s1 :
        IF mmap = "elsewhere" THEN [s |-> s1, ret |-> 1]
        ELSE
        Then(new_heap_segment, LAMBDA new_block :
        Then(SetSize(s1, new_block, new_size - EL_BLOCK_OVERHEAD), LAMBDA s2 :
        Then(SetState(s2, new_block, EL_AVAILABLE), LAMBDA s3 :
        Then(el_get_footer(s3, new_block), LAMBDA new_foot :
        Then(SetFootSize(s3, new_foot, Size(s3, new_block)), LAMBDA s4 :
        Then(el_add_block_front(s4, "avail", new_block), LAMBDA s5 :
        Then(el_block_below(s5, new_block), LAMBDA prev_block :
        Then(IF prev_block # NULL /\ State(s5, prev_block) = EL_AVAILABLE
             THEN el_merge_block_with_above(s5, prev_block)
             ELSE s5, LAMBDA s6 :
            [s |-> s6, ret |-> 0])))))))))))

\* [s |-> state after the call, ret |-> 0 or 1]
el_append_pages_to_heap(s, npages, mmap) ==
    IF mmap = "MAP_FAILED" THEN [s |-> s, ret |-> 1]
    ELSE IF mmap = "elsewhere" THEN [s |-> s, ret |-> 1]
    ELSE
    Then(npages * EL_PAGE_BYTES, LAMBDA new_size :
    Then(s.ctl.heap_end, LAMBDA new_heap_segment :
    Then([s EXCEPT !.ctl.heap_end = @ + new_size,
                   !.ctl.heap_bytes = @ + new_size], LAMBDA s1 :
    Then(new_heap_segment, LAMBDA new_block :
    Then(SetSize(s1, new_block, new_size - EL_BLOCK_OVERHEAD), LAMBDA s2 :
    Then(SetState(s2, new_block, EL_AVAILABLE), LAMBDA s3 :
    Then(el_get_footer(s3, new_block), LAMBDA new_foot :
    Then(SetFootSize(s3, new_foot, Size(s3, new_block)), LAMBDA s4 :
    Then(el_add_block_front(s4, "avail", new_block), LAMBDA s5 :
    Then(el_block_below(s5, new_block), LAMBDA prev_block :
    Then(IF prev_block # NULL /\ State(s5, prev_block) = EL_AVAILABLE
         THEN el_merge_block_with_above(s5, prev_block)
         ELSE s5, LAMBDA s6 :
        [s |-> s6, ret |-> 0])))))))))))

---------------------------------------------------------------------------
(* Initialisation                                                          *)

NoList == [length |-> 0, bytes |-> 0]

\* the state el_init() leaves when it returns 0, for a heap of heap_size bytes
el_init(heap_size) ==
    Then([ctl |-> [heap_bytes |-> heap_size,
                   heap_start |-> EL_HEAP_START_ADDRESS,
                   heap_end   |-> EL_HEAP_START_ADDRESS + heap_size,
                   avail |-> NoList, used |-> NoList],
          mem |-> [w8 |-> << >>, w1 |-> << >>],
          calls |-> 0, over |-> FALSE, log |-> << >>], LAMBDA s0 :
    Then(el_init_blocklist(s0, "avail"), LAMBDA s1 :
    Then(el_init_blocklist(s1, "used"), LAMBDA s2 :
    Then(s2.ctl.heap_bytes - EL_BLOCK_OVERHEAD, LAMBDA size :
    Then(s2.ctl.heap_start, LAMBDA ablock :
    Then(SetSize(s2, ablock, size), LAMBDA s3 :
    Then(SetState(s3, ablock, EL_AVAILABLE), LAMBDA s4 :
    Then(el_get_footer(s4, ablock), LAMBDA afoot :
    Then(SetFootSize(s4, afoot, size), LAMBDA s5 :
    Then(SetPrev(s5, ablock, Beg("avail")), LAMBDA s6 :
    Then(SetNext(s6, ablock, NextOf(s6, Beg("avail"))), LAMBDA s7 :
    Then(SetNext(s7, PrevOf(s7, ablock), ablock), LAMBDA s8 :
    Then(SetPrev(s8, NextOf(s8, ablock), ablock), LAMBDA s9 :
        [s9 EXCEPT !.ctl.avail =
            [length |-> @.length + 1,
             bytes  |-> @.bytes + (Size(s9, ablock) + EL_BLOCK_OVERHEAD)]]
    )))))))))))))

---------------------------------------------------------------------------
(* The address-order walk of the heap (as el_print_stats makes it)         *)

\* blocks met from block on by el_block_above, at most fuel of them; the
\* walk also stops at an address that holds no header
RECURSIVE WalkFrom(_, _, _)
WalkFrom(s, block, fuel) ==
    IF block = NULL \/ fuel = 0 \/ (block + OffSize) \notin DOMAIN s.mem.w8
    THEN << >>
    ELSE Then(el_block_above(s, block), LAMBDA cur :
         Then(fuel - 1, LAMBDA left :
             <<block>> \o WalkFrom(s, cur, left)))

HeapBlocks(s) == WalkFrom(s, s.ctl.heap_start, MaxNodes)

\* the 8-byte fields of a block: size, next, prev and the footer's size
Fields8(s, b) == {b + OffSize, b + OffNext, b + OffPrev, el_get_footer(s, b)}

CtlFields8 == {h + o : h \in {AvailBeg, AvailEnd, UsedBeg, UsedEnd},
                       o \in {OffSize, OffNext, OffPrev}}
CtlFields1 == {h + OffState : h \in {AvailBeg, AvailEnd, UsedBeg, UsedEnd}}

\* Once a call has returned, every heap byte outside the headers and footers
\* of the blocks of the walk is payload: the caller's to overwrite while the
\* block is used, left-over bytes while it is free.  The model keeps no value
\* for them.
AtRest(s) ==
    IF Aligned(s.mem) /\ Mapped(s)
    THEN
    Then(HeapBlocks(s), LAMBDA blocks :
    Then(CtlFields8 \cup
         UNION {Fields8(s, blocks[i]) : i \in 1 .. Len(blocks)}, LAMBDA keep8 :
    Then(CtlFields1 \cup
         {blocks[i] + OffState : i \in 1 .. Len(blocks)}, LAMBDA keep1 :
        [s EXCEPT !.mem =
            [w8 |-> [a \in keep8 \cap DOMAIN s.mem.w8 |-> s.mem.w8[a]],
             w1 |-> [a \in keep1 \cap DOMAIN s.mem.w1 |-> s.mem.w1[a]]]])))
    ELSE CHOOSE x \in {} : TRUE

---------------------------------------------------------------------------
(* The state machine                                                       *)

\* the allocator as the operators see it
Cur == [ctl |-> el_ctl, mem |-> mem, calls |-> 0, over |-> FALSE, log |-> << >>]

Init ==
    \E heap_size \in HeapInitialSizes :
        /\ heap_size >= EL_BLOCK_OVERHEAD
        /\ \E s \in {el_init(heap_size)} :
              /\ el_ctl = s.ctl
              /\ mem = AtRest(s).mem
        /\ live = {}
        /\ last = [op |-> "init", arg |-> heap_size, ret |-> 0, mmap |-> "none",
                   prior |-> NULL]

\* last is the call that led to the state: its name, argument and result,
\* mmap's answer for a grow, and for a free the pointer the call before it
\* returned if that was a successful el_malloc (else NULL)
Fresh == IF last.op = "malloc" /\ last.ret # Hang THEN last.ret ELSE NULL

\* no call is made after one that never returned
Running == last.ret # Hang

Malloc ==
    \E nbytes \in ReqSizes :
        /\ Running
        /\ Cardinality(live) < MaxLive
        /\ \E r \in {el_malloc(Cur, nbytes)} :
              /\ el_ctl' = r.s.ctl
              /\ mem' = AtRest(r.s).mem
              /\ live' = IF r.ret = NULL \/ r.ret = Hang THEN live
                         ELSE live \cup {r.ret}
              /\ last' = [op |-> "malloc", arg |-> nbytes, ret |-> r.ret,
                          mmap |-> "none", prior |-> NULL]

Free ==
    \E ptr \in live :
        /\ Running
        /\ \E s \in {el_free(Cur, ptr)} :
              /\ el_ctl' = s.ctl
              /\ mem' = AtRest(s).mem
              /\ last' = [op |-> "free", arg |-> ptr,
                          ret |-> IF s.over THEN Hang ELSE 0, mmap |-> "none",
                          prior |-> Fresh]
        /\ live' = live \ {ptr}

Grow ==
    \E npages \in {1}, mmap \in MmapOutcomes :
        /\ Running
        /\ el_ctl.heap_bytes \div EL_PAGE_BYTES + npages <= MaxPages
        /\ \E r \in {el_append_pages_to_heap(Cur, npages, mmap)} :
              /\ el_ctl' = r.s.ctl
              /\ mem' = AtRest(r.s).mem
              /\ last' = [op |-> "grow", arg |-> npages,
                          ret |-> IF r.s.over THEN Hang ELSE r.ret,
                          mmap |-> mmap, prior |-> NULL]
        /\ live' = live

Next == Malloc \/ Free \/ Grow

Spec == Init /\ [][Next]_vars

---------------------------------------------------------------------------
(* Call sequences on a fresh heap                                          *)
(*                                                                         *)
(* The same calls made from el_init() on, for several values of            *)
(* EL_HEAP_INITIAL_SIZE and without heap growth; last.hist is the sequence *)
(* of calls made so far, each with its argument and its result.            *)

\* values of EL_HEAP_INITIAL_SIZE: first blocks of payload 128, 190 and 256
ScenHeapSizes == {168, 230, 296}
\* request sizes passed to el_malloc
ScenSizes == {50, 64, 100, 128}
\* calls made after el_init
ScenSteps == 4

ScenInit ==
    \E heap_size \in ScenHeapSizes :
        /\ heap_size >= EL_BLOCK_OVERHEAD
        /\ \E s \in {el_init(heap_size)} :
              /\ el_ctl = s.ctl
              /\ mem = AtRest(s).mem
        /\ live = {}
        /\ last = [op |-> "init", arg |-> heap_size, ret |-> 0, mmap |-> "none",
                   prior |-> NULL, hist |-> << >>]

ScenMalloc ==
    \E nbytes \in ScenSizes :
        /\ Running
        /\ Len(last.hist) < ScenSteps
        /\ \E r \in {el_malloc(Cur, nbytes)} :
              /\ el_ctl' = r.s.ctl
              /\ mem' = AtRest(r.s).mem
              /\ live' = IF r.ret = NULL \/ r.ret = Hang THEN live
                         ELSE live \cup {r.ret}
              /\ last' = [op |-> "malloc", arg |-> nbytes, ret |-> r.ret,
                          mmap |-> "none", prior |-> NULL,
                          hist |-> Append(last.hist,
                                    [op |-> "malloc", arg |-> nbytes,
                                     ret |-> r.ret])]

ScenFree ==
    \E ptr \in live :
        /\ Running
        /\ Len(last.hist) < ScenSteps
        /\ \E s \in {el_free(Cur, ptr)} :
              /\ el_ctl' = s.ctl
              /\ mem' = AtRest(s).mem
              /\ last' = [op |-> "free", arg |-> ptr,
                          ret |-> IF s.over THEN Hang ELSE 0, mmap |-> "none",
                          prior |-> Fresh,
                          hist |-> Append(last.hist,
                                    [op |-> "free", arg |-> ptr, ret |-> 0])]
        /\ live' = live \ {ptr}

ScenNext == ScenMalloc \/ ScenFree

SpecScen == ScenInit /\ [][ScenNext]_vars

---------------------------------------------------------------------------
(* What the formulas read off a state                                      *)

\* the nodes met after node by following next, up to the end sentinel of
\* list; at most fuel of them
RECURSIVE ListFrom(_, _, _, _)
ListFrom(s, node, list, fuel) ==
    LET nx == NextOf(s, node)
    IN  IF nx = End(list) \/ nx = NULL \/ fuel = 0 THEN << >>
        ELSE <<nx>> \o ListFrom(s, nx, list, fuel - 1)

\* the members of a list, in next-order from beg
ListNodes(s, list) == ListFrom(s, Beg(list), list, MaxNodes)

\* following next from beg ends on the end sentinel
ListClosed(s, list) ==
    LET nodes == ListNodes(s, list)
        tail  == IF nodes = << >> THEN Beg(list) ELSE nodes[Len(nodes)]
    IN  Len(nodes) < MaxNodes /\ NextOf(s, tail) = End(list)

SeqSet(q) == {q[i] : i \in 1 .. Len(q)}

RECURSIVE SumBytes(_, _)
SumBytes(s, q) ==
    IF q = << >> THEN 0
    ELSE Size(s, Head(q)) + EL_BLOCK_OVERHEAD + SumBytes(s, Tail(q))

\* the block of the walk whose bytes hold address p (NULL when none does)
BlockAt(s, p) ==
    LET in == {b \in SeqSet(HeapBlocks(s)) :
                 b <= p /\ p < b + Size(s, b) + EL_BLOCK_OVERHEAD}
    IN  IF in = {} THEN NULL ELSE CHOOSE b \in in : TRUE

\* the blocks next to block b in the walk
Neighbours(s, b) ==
    LET blocks == HeapBlocks(s)
    IN  {blocks[i] : i \in {j \in 1 .. Len(blocks) :
            \/ (j < Len(blocks) /\ blocks[j + 1] = b)
            \/ (j > 1 /\ blocks[j - 1] = b)}}

---------------------------------------------------------------------------
(* Claims                                                                  *)

\* C1: after any sequence of completed allocate, release and grow calls no
\* two address-adjacent blocks of the arena are both FREE.
C1_NoAdjacentFree ==
    LET blocks == HeapBlocks(Cur)
    IN  \A i \in 1 .. Len(blocks) - 1 :
            ~(State(Cur, blocks[i]) = EL_AVAILABLE
              /\ State(Cur, blocks[i + 1]) = EL_AVAILABLE)

\* C2: when release(p) returns, the free block that holds p's payload has no
\* FREE block immediately above it and none immediately below it.
C2_ReleaseCollapsesRun ==
    (last.op = "free" /\ last.ret = 0) =>
        LET b == BlockAt(Cur, last.arg)
        IN  /\ b # NULL
            /\ State(Cur, b) = EL_AVAILABLE
            /\ \A n \in Neighbours(Cur, b) : State(Cur, n) # EL_AVAILABLE

\* C3: the walk from heap_start in steps of size + overhead visits each block
\* once, moves upward at every step and lands exactly on heap_end; the
\* (size + overhead) values sum to heap_bytes; heap_end - heap_start is
\* heap_bytes.
C3_Coverage ==
    LET blocks == HeapBlocks(Cur)
        top == blocks[Len(blocks)]
    IN  /\ Len(blocks) >= 1 /\ Len(blocks) < MaxNodes
        /\ blocks[1] = el_ctl.heap_start
        /\ \A i \in 1 .. Len(blocks) - 1 :
              /\ blocks[i] < blocks[i + 1]
              /\ blocks[i + 1] = blocks[i] + Size(Cur, blocks[i]) + EL_BLOCK_OVERHEAD
        /\ top + Size(Cur, top) + EL_BLOCK_OVERHEAD = el_ctl.heap_end
        /\ SumBytes(Cur, blocks) = el_ctl.heap_bytes

\* a grow has appended a block and blocks have been split and merged
C3_Witness ==
    /\ last.op = "free" /\ Len(HeapBlocks(Cur)) >= 3
    /\ el_ctl.heap_bytes \notin HeapInitialSizes
    /\ C3_Coverage

\* C4: every block of the walk has footer.size = header.size, the footer read
\* at header address + sizeof(header) + header.size.
C4_FooterMirror ==
    \A b \in SeqSet(HeapBlocks(Cur)) :
        LET foot == b + HeadBytes + Size(Cur, b)
        IN  foot \in DOMAIN mem.w8 /\ FootSize(Cur, foot) = Size(Cur, b)

\* a merge has rewritten the footer of a block that absorbed two others
C4_Witness ==
    /\ last.op = "free" /\ C4_FooterMirror
    /\ \E b \in SeqSet(HeapBlocks(Cur)) :
          /\ BlockAt(Cur, last.arg) = b
          /\ b + HeadBytes < last.arg
          /\ Size(Cur, b) > 2 * 100 + EL_BLOCK_OVERHEAD

\* C5: for both lists length is the number of nodes between beg and end and
\* bytes is the sum of (size + overhead) over them.
C5_ListAggregates ==
    \A list \in {"avail", "used"} :
        /\ ListClosed(Cur, list)
        /\ el_ctl[list].length = Len(ListNodes(Cur, list))
        /\ el_ctl[list].bytes = SumBytes(Cur, ListNodes(Cur, list))

\* a release has merged the freed block (no unmerged block is that large)
\* and both lists have members
C5_Witness ==
    /\ last.op = "free" /\ C5_ListAggregates
    /\ \A n \in ReqSizes :
          Size(Cur, BlockAt(Cur, last.arg)) >= n + EL_BLOCK_OVERHEAD
    /\ el_ctl.avail.length >= 2 /\ el_ctl.used.length >= 1

\* C6: every block of the walk is in exactly one list, the free list when its
\* state is FREE and the used list when it is USED, and neither list holds a
\* node that is no block of the walk.
C6_Partition ==
    LET blocks == SeqSet(HeapBlocks(Cur))
        free == ListNodes(Cur, "avail")
        used == ListNodes(Cur, "used")
    IN  /\ ListClosed(Cur, "avail") /\ ListClosed(Cur, "used")
        /\ SeqSet(free) \cup SeqSet(used) = blocks
        /\ SeqSet(free) \cap SeqSet(used) = {}
        /\ Cardinality(SeqSet(free)) = Len(free)
        /\ Cardinality(SeqSet(used)) = Len(used)
        /\ \A b \in blocks :
              /\ State(Cur, b) \in {EL_AVAILABLE, EL_USED}
              /\ State(Cur, b) = EL_AVAILABLE <=> b \in SeqSet(free)
              /\ State(Cur, b) = EL_USED <=> b \in SeqSet(used)

\* free and used blocks alternate across a heap of four blocks
C6_Witness ==
    /\ C6_Partition
    /\ Len(HeapBlocks(Cur)) >= 4
    /\ el_ctl.avail.length >= 2 /\ el_ctl.used.length >= 2

\* no member of the free list of s has size >= n
NoFit(s, n) ==
    \A b \in SeqSet(ListNodes(s, "avail")) : ULt(Size(s, b), n)

\* C7: when no member of the free list has size >= N, el_malloc(N) returns
\* NULL and the state it leaves is the state it was called in (heap bounds
\* and heap_bytes, every header and footer, both lists), so the heap has not
\* grown.
C7_NoFitNoChange ==
    /\ AtRest(Cur) = Cur
    /\ \A N \in ReqSizes :
          NoFit(Cur, N) => el_malloc(Cur, N) = [s |-> Cur, ret |-> NULL]

\* the last call was an el_malloc that found no fit among the free blocks
\* there are
C7_Witness ==
    /\ last.op = "malloc" /\ last.ret = NULL
    /\ NoFit(Cur, last.arg)
    /\ el_ctl.avail.length >= 1
    /\ C7_NoFitNoChange

\* C8: when mmap fails or answers an address other than heap_end,
\* el_append_pages_to_heap returns 1 and leaves heap_end, heap_bytes, every
\* block and both lists as they were.
C8_GrowFailureNoChange ==
    \A mmap \in MmapOutcomes \ {"at_heap_end"} :
        el_append_pages_to_heap(Cur, 1, mmap) = [s |-> Cur, ret |-> 1]

\* the last call was a grow that mmap answered elsewhere, with blocks in
\* both lists
C8_Witness ==
    /\ last.op = "grow" /\ last.mmap = "elsewhere" /\ last.ret = 1
    /\ el_ctl.avail.length >= 1 /\ el_ctl.used.length >= 1
    /\ C8_GrowFailureNoChange

\* C9: where el_malloc(N) succeeds, el_free of the pointer it returned,
\* called next, leaves avail.bytes at its value before the el_malloc and
\* the used list with the members, order, length and bytes it had before.
C9_RoundTrip ==
    \A N \in ReqSizes :
        LET r == el_malloc(Cur, N)
        IN  (r.ret # NULL /\ r.ret # Hang) =>
                LET f == el_free(AtRest(r.s), r.ret)
                IN  /\ ~f.over
                    /\ f.ctl.avail.bytes = el_ctl.avail.bytes
                    /\ f.ctl.used = el_ctl.used
                    /\ ListNodes(f, "used") = ListNodes(Cur, "used")
                    /\ SumBytes(f, ListNodes(f, "used")) = el_ctl.used.bytes

\* the last call released the pointer the el_malloc just before it had
\* returned, while other allocations are live
C9_Witness ==
    /\ last.op = "free" /\ last.prior # NULL /\ last.arg = last.prior
    /\ el_ctl.used.length >= 1
    /\ C9_RoundTrip

\* the fields of state t that differ from state s, or that only one has
Changed8(s, t) ==
    {a \in DOMAIN s.mem.w8 \cup DOMAIN t.mem.w8 :
        \/ a \notin DOMAIN s.mem.w8 \/ a \notin DOMAIN t.mem.w8
        \/ s.mem.w8[a] # t.mem.w8[a]}

Changed1(s, t) ==
    {a \in DOMAIN s.mem.w1 \cup DOMAIN t.mem.w1 :
        \/ a \notin DOMAIN s.mem.w1 \/ a \notin DOMAIN t.mem.w1
        \/ s.mem.w1[a] # t.mem.w1[a]}

\* C10: el_split_block(block, N), called as el_malloc calls it on a free
\* block of size S it has just unlinked: with S >= N + overhead block's
\* header and footer hold N, the block above it is new, FREE, of size
\* S - N - overhead with its footer where block's footer was, and no list
\* has changed; with S < N + overhead it returns NULL and nothing changes.
C10_Split ==
    \A block \in SeqSet(ListNodes(Cur, "avail")), N \in ReqSizes :
        LET s    == el_remove_block(Cur, "avail", block)
            S    == Size(s, block)
            foot == block + HeadBytes + S
            r    == el_split_block(s, block, N)
            new  == block + HeadBytes + N + FootBytes
        IN  IF S >= N + EL_BLOCK_OVERHEAD
            THEN /\ r.ret = new
                 /\ Size(r.s, block) = N
                 /\ FootSize(r.s, block + HeadBytes + N) = N
                 /\ Size(r.s, new) = S - N - EL_BLOCK_OVERHEAD
                 /\ State(r.s, new) = EL_AVAILABLE
                 /\ el_get_footer(r.s, new) = foot
                 /\ FootSize(r.s, foot) = S - N - EL_BLOCK_OVERHEAD
                 /\ Size(r.s, block) + Size(r.s, new) = S - EL_BLOCK_OVERHEAD
                 /\ r.s.ctl = s.ctl
                 /\ \A list \in {"avail", "used"} :
                        ListNodes(r.s, list) = ListNodes(s, list)
                 /\ Changed8(s, r.s) =
                        {block + OffSize, block + HeadBytes + N,
                         new + OffSize, foot}
                 /\ Changed1(s, r.s) = {new + OffState}
            ELSE r = [s |-> s, ret |-> NULL]

\* the last el_malloc split the block it took, and the heap also holds a
\* free block too small to split for some request
C10_Witness ==
    /\ last.op = "malloc" /\ last.ret # NULL /\ last.ret # Hang
    /\ LET block == last.ret - HeadBytes
           new == el_block_above(Cur, block)
       IN  /\ Size(Cur, block) = last.arg
           /\ new # NULL
           /\ NextOf(Cur, Beg("avail")) = new
    /\ \E b \in SeqSet(ListNodes(Cur, "avail")), N \in ReqSizes :
           Size(Cur, b) < N + EL_BLOCK_OVERHEAD
    /\ C10_Split

\* call i of the sequence was an el_malloc(n) that returned a pointer
Gave(i, n) ==
    /\ Len(last.hist) >= i
    /\ last.hist[i].op = "malloc" /\ last.hist[i].arg = n
    /\ last.hist[i].ret # NULL /\ last.hist[i].ret # Hang

\* call i of the sequence was el_free of the pointer call j returned
Freed(i, j) ==
    /\ Len(last.hist) >= i
    /\ last.hist[i].op = "free" /\ last.hist[i].arg = last.hist[j].ret

\* C11: on a fresh heap of one free block, after el_malloc(100) and
\* el_malloc(50) have both succeeded and both pointers have been released,
\* in either order, the free list holds exactly one block, of the size of the
\* first block, and the used list is empty.
C11_ReleaseBothOrders ==
    (/\ Len(last.hist) = 4
     /\ Gave(1, 100) /\ Gave(2, 50)
     /\ \/ (Freed(3, 1) /\ Freed(4, 2))
        \/ (Freed(3, 2) /\ Freed(4, 1)))
    => /\ el_ctl.avail.length = 1
       /\ ListNodes(Cur, "avail") = <<el_ctl.heap_start>>
       /\ Size(Cur, el_ctl.heap_start) = el_ctl.heap_bytes - EL_BLOCK_OVERHEAD
       /\ el_ctl.used.length = 0
       /\ ListNodes(Cur, "used") = << >>

\* the sizes of the members of a list, in list order
ListSizes(s, list) ==
    [i \in 1 .. Len(ListNodes(s, list)) |-> Size(s, ListNodes(s, list)[i])]

\* el_malloc(64) twice, both served, on a fresh heap whose one free block has
\* size 256
TwoFromOne ==
    /\ Len(last.hist) = 2 /\ Gave(1, 64) /\ Gave(2, 64)
    /\ el_ctl.heap_bytes = 256 + EL_BLOCK_OVERHEAD

\* C12 as stated: from one free block of size 256 and an empty used list,
\* el_malloc(64) twice leaves the used list with exactly two blocks of size
\* 64 and the free list with exactly one block, of size 256 - 128 - overhead.
C12_AsStated ==
    TwoFromOne =>
        /\ ListSizes(Cur, "used") = <<64, 64>>
        /\ ListSizes(Cur, "avail") = <<256 - 128 - EL_BLOCK_OVERHEAD>>

\* C12, amended: from one free block of size 256 and an empty used list,
\* el_malloc(64) twice leaves the used list with exactly two blocks of size
\* 64 and the free list with exactly one block, of size
\* 256 - 128 - 2 * overhead: each of the two splits takes one overhead.
C12_TwoSplits ==
    TwoFromOne =>
        /\ ListSizes(Cur, "used") = <<64, 64>>
        /\ el_ctl.used.length = 2
        /\ ListSizes(Cur, "avail") = <<256 - 128 - 2 * EL_BLOCK_OVERHEAD>>
        /\ el_ctl.avail.length = 1

\* both calls have been made and served
C12_Witness == TwoFromOne /\ C12_TwoSplits

\* the heap was made for one block of size 128 and the first call was
\* el_malloc(128)
OneExact ==
    /\ el_ctl.heap_bytes = 128 + EL_BLOCK_OVERHEAD
    /\ Len(last.hist) >= 1
    /\ last.hist[1].op = "malloc" /\ last.hist[1].arg = 128

\* the one block of the heap is used whole and nothing is free
AllTaken ==
    /\ HeapBlocks(Cur) = <<el_ctl.heap_start>>
    /\ Size(Cur, el_ctl.heap_start) = 128
    /\ State(Cur, el_ctl.heap_start) = EL_USED
    /\ ListNodes(Cur, "used") = <<el_ctl.heap_start>>
    /\ ListNodes(Cur, "avail") = << >>
    /\ el_ctl.avail = NoList

\* C13: on a heap of exactly one free block of size 128, el_malloc(128)
\* succeeds without a split, returns the address right after the block's
\* header and leaves the free list empty; a second el_malloc(128) returns
\* NULL and changes nothing.
C13_ExactFit ==
    OneExact =>
        /\ last.hist[1].ret = el_ctl.heap_start + HeadBytes
        /\ Len(last.hist) = 1 =>
              /\ AllTaken
              /\ el_malloc(Cur, 128) = [s |-> Cur, ret |-> NULL]
        /\ (Len(last.hist) >= 2 /\ last.hist[2].op = "malloc"
            /\ last.hist[2].arg = 128) =>
              /\ last.hist[2].ret = NULL
              /\ Len(last.hist) = 2 => AllTaken

\* the second el_malloc(128) has been refused
C13_Witness ==
    /\ OneExact /\ Len(last.hist) = 2
    /\ last.op = "malloc" /\ last.arg = 128 /\ last.ret = NULL
    /\ C13_ExactFit

\* the topmost block of the heap of s
TopBlock(s) == HeapBlocks(s)[Len(HeapBlocks(s))]

\* C14: when el_append_pages_to_heap(pages) succeeds in a state whose
\* topmost block T is FREE, T is afterwards a FREE block of size
\* T.size + pages * EL_PAGE_BYTES at its old address, it is the front of the
\* free list, avail.length is what it was and the new region holds no block
\* of its own.
C14_GrowMergesTop ==
    LET T == TopBlock(Cur)
        r == el_append_pages_to_heap(Cur, 1, "at_heap_end")
        after == AtRest(r.s)
    IN  State(Cur, T) = EL_AVAILABLE =>
            /\ r.ret = 0 /\ ~r.s.over
            /\ T \in SeqSet(HeapBlocks(after))
            /\ State(after, T) = EL_AVAILABLE
            /\ Size(after, T) = Size(Cur, T) + 1 * EL_PAGE_BYTES
            /\ NextOf(after, Beg("avail")) = T
            /\ after.ctl.avail.length = el_ctl.avail.length
            /\ TopBlock(after) = T
            /\ Len(HeapBlocks(after)) = Len(HeapBlocks(Cur))

\* the places in the free list of s of the members of size >= n
Fits(s, n) ==
    {i \in 1 .. Len(ListNodes(s, "avail")) :
        UGe(Size(s, ListNodes(s, "avail")[i]), n)}

\* the least member of a non-empty set of numbers
Least(S) == CHOOSE i \in S : \A j \in S : i <= j

\* C15: el_malloc(N) returns the payload of the member of the free list
\* nearest the front whose size is >= N, whatever fits further back, and
\* returns NULL exactly when no member has size >= N.
C15_FirstFit ==
    \A N \in ReqSizes :
        LET r == el_malloc(Cur, N)
        IN  IF Fits(Cur, N) = {} THEN r.ret = NULL
            ELSE r.ret = ListNodes(Cur, "avail")[Least(Fits(Cur, N))] + HeadBytes

\* the last el_malloc took a block although the free list still holds a
\* block that fits the request and is smaller than the block taken was
C15_Witness ==
    /\ last.op = "malloc" /\ last.ret # NULL /\ last.ret # Hang
    /\ LET block == last.ret - HeadBytes
           new == el_block_above(Cur, block)
           split == /\ new # NULL /\ NextOf(Cur, Beg("avail")) = new
                    /\ Size(Cur, block) = last.arg
           was == IF split
                  THEN Size(Cur, block) + EL_BLOCK_OVERHEAD + Size(Cur, new)
                  ELSE Size(Cur, block)
       IN  \E c \in SeqSet(ListNodes(Cur, "avail")) :
              /\ split => c # new
              /\ Size(Cur, c) >= last.arg /\ Size(Cur, c) < was
    /\ C15_FirstFit

\* what a step does to the bounds of the heap: heap_start stays, and
\* heap_end and heap_bytes move only in an el_append_pages_to_heap that
\* returns 0, by the bytes of the pages asked for
BoundsStep ==
    /\ el_ctl'.heap_start = el_ctl.heap_start
    /\ el_ctl'.heap_bytes >= el_ctl.heap_bytes
    /\ IF last'.op = "grow" /\ last'.ret = 0
       THEN /\ el_ctl'.heap_bytes =
                  el_ctl.heap_bytes + last'.arg * EL_PAGE_BYTES
            /\ el_ctl'.heap_end =
                  el_ctl.heap_end + last'.arg * EL_PAGE_BYTES
       ELSE /\ el_ctl'.heap_bytes = el_ctl.heap_bytes
            /\ el_ctl'.heap_end = el_ctl.heap_end

\* C16: heap_end - heap_start = heap_bytes in every state; heap_start never
\* changes; heap_bytes never decreases and changes only in a successful
\* el_append_pages_to_heap(pages), by pages * EL_PAGE_BYTES added at the old
\* heap_end; el_malloc and el_free change none of the three.
C16_HeapBounds ==
    /\ [](el_ctl.heap_end - el_ctl.heap_start = el_ctl.heap_bytes)
    /\ [][BoundsStep]_vars

\* the heap has grown by a page while blocks were in use
C16_Witness ==
    /\ last.op = "grow" /\ last.ret = 0
    /\ el_ctl.heap_bytes = 296 + EL_PAGE_BYTES
    /\ el_ctl.heap_end - el_ctl.heap_start = el_ctl.heap_bytes
    /\ el_ctl.used.length >= 1

\* C17: every el_malloc, el_free and el_append_pages_to_heap started in a
\* reachable state returns: the search of the free list ends within
\* avail.length steps, and the calls of el_merge_block_with_above made by one
\* el_free or one grow, re-checks of the block below included, number at
\* most three per block of the heap.
C17_CallsReturn ==
    LET blocks == Len(HeapBlocks(Cur))
    IN  /\ Running
        /\ \A N \in ReqSizes :
              /\ FindLoop(Cur, Beg("avail"), N, el_ctl.avail.length) # Hang
              /\ el_malloc(Cur, N).ret # Hang
        /\ \A ptr \in live :
              LET s == el_free(Cur, ptr)
              IN  ~s.over /\ s.calls <= 3 * blocks
        /\ LET r == el_append_pages_to_heap(Cur, 1, "at_heap_end")
           IN  ~r.s.over /\ r.s.calls <= 3 * (blocks + 1)

\* the last el_free merged the released block into the block below it, the
\* free list has several members and allocations are outstanding
C17_Witness ==
    /\ last.op = "free" /\ last.ret = 0
    /\ BlockAt(Cur, last.arg) # NULL
    /\ BlockAt(Cur, last.arg) + HeadBytes < last.arg
    /\ el_ctl.avail.length >= 2 /\ live # {}
    /\ C17_CallsReturn

\* C18: an el_malloc(N) that succeeds returns the address right after the
\* header of a block that is marked USED, is the front of the used list and
\* has a size S with N <= S < N + overhead, S = N when the block taken had
\* size >= N + overhead; the block split off, if any, is the front of the
\* free list.
C18_Served ==
    \A N \in ReqSizes :
        LET r == el_malloc(Cur, N)
            after == AtRest(r.s)
            block == r.ret - HeadBytes
            was == Size(Cur, block)
            new == block + N + EL_BLOCK_OVERHEAD
        IN  (r.ret # NULL /\ r.ret # Hang) =>
              /\ block \in SeqSet(ListNodes(Cur, "avail"))
              /\ block \in SeqSet(HeapBlocks(after))
              /\ State(after, block) = EL_USED
              /\ NextOf(after, Beg("used")) = block
              /\ N <= Size(after, block)
              /\ Size(after, block) < N + EL_BLOCK_OVERHEAD
              /\ IF was >= N + EL_BLOCK_OVERHEAD
                 THEN /\ Size(after, block) = N
                      /\ NextOf(after, Beg("avail")) = new
                      /\ State(after, new) = EL_AVAILABLE
                      /\ Size(after, new) = was - N - EL_BLOCK_OVERHEAD
                      /\ after.ctl.avail.length = el_ctl.avail.length
                 ELSE /\ Size(after, block) = was
                      /\ after.ctl.avail.length = el_ctl.avail.length - 1

\* the last el_malloc split a block while other blocks were used and free
C18_Witness ==
    /\ last.op = "malloc" /\ last.ret # NULL /\ last.ret # Hang
    /\ NextOf(Cur, Beg("used")) = last.ret - HeadBytes
    /\ NextOf(Cur, Beg("avail")) = el_block_above(Cur, last.ret - HeadBytes)
    /\ el_ctl.used.length >= 2 /\ el_ctl.avail.length >= 2
    /\ C18_Served

\* C19: when el_free(p) has returned, the node right after the begin
\* sentinel of the free list is the FREE block whose bytes hold p's payload,
\* merged or not, so an el_malloc(N) that follows with N no larger than that
\* block is served from it.
C19_FreedAtFront ==
    (last.op = "free" /\ last.ret = 0) =>
        LET front == NextOf(Cur, Beg("avail"))
        IN  /\ front # End("avail")
            /\ front = BlockAt(Cur, last.arg)
            /\ State(Cur, front) = EL_AVAILABLE
            /\ front + HeadBytes <= last.arg
            /\ \A N \in ReqSizes :
                  N <= Size(Cur, front) =>
                      el_malloc(Cur, N).ret = front + HeadBytes

\* the released block was merged with the block below it and with the block
\* above it, and the free list has other members
C19_Witness ==
    /\ last.op = "free" /\ last.ret = 0
    /\ LET front == NextOf(Cur, Beg("avail"))
       IN  /\ front + HeadBytes < last.arg
           /\ \A N \in ReqSizes :
                 front + HeadBytes + Size(Cur, front) >
                     last.arg + N + EL_BLOCK_OVERHEAD
    /\ el_ctl.avail.length >= 2
    /\ C19_FreedAtFront

\* the allocator as the operators see it after the step
CurNext == [ctl |-> el_ctl', mem |-> mem', calls |-> 0, over |-> FALSE, log |-> << >>]

\* the byte ranges [a, a + m) and [b, b + n) share no byte
Apart(a, m, b, n) == a + m <= b \/ b + n <= a

\* the payload of the outstanding allocation p is the payload of a USED block
\* of the walk, inside the heap, and shares no byte with the payload of
\* another outstanding allocation or with any header or footer
PayloadSafe(p) ==
    LET block == p - HeadBytes
        size == Size(Cur, block)
    IN  /\ block \in SeqSet(HeapBlocks(Cur))
        /\ State(Cur, block) = EL_USED
        /\ block \in SeqSet(ListNodes(Cur, "used"))
        /\ el_ctl.heap_start <= p /\ p + size <= el_ctl.heap_end
        /\ \A q \in live \ {p} :
              Apart(p, size, q, Size(Cur, q - HeadBytes))
        /\ \A b \in SeqSet(HeapBlocks(Cur)) :
              /\ Apart(p, size, b, HeadBytes)
              /\ Apart(p, size, el_get_footer(Cur, b), FootBytes)

\* a step leaves every allocation that stays outstanding where it was, with
\* its size and its USED state
OthersKept ==
    \A p \in live \cap live' :
        /\ Size(CurNext, p - HeadBytes) = Size(Cur, p - HeadBytes)
        /\ State(CurNext, p - HeadBytes) = EL_USED
        /\ State(Cur, p - HeadBytes) = EL_USED

\* C20: the payloads [p, p + size) of the outstanding allocations are
\* pairwise disjoint, lie inside [heap_start, heap_end) and overlap no header
\* and no footer of any block; no el_malloc, el_free or grow changes the
\* address, size or USED state of an outstanding allocation other than the
\* one being released.
C20_PayloadsKept ==
    /\ [](\A p \in live : PayloadSafe(p))
    /\ [][OthersKept]_vars

\* a block between two outstanding allocations has been released
C20_Witness ==
    /\ last.op = "free" /\ Cardinality(live) = 2
    /\ el_ctl.avail.length >= 2
    /\ \A p \in live : PayloadSafe(p)
    /\ \E p \in live, q \in live : p < last.arg /\ last.arg < q

\* the allocator as a log entry saw it before, and after, what it records
Before(e) ==
    [ctl |-> e.ctl, mem |-> e.mem, calls |-> 0, over |-> FALSE, log |-> << >>]

After(e) ==
    [ctl |-> e.ctl2, mem |-> e.mem2, calls |-> 0, over |-> FALSE,
     log |-> << >>]

\* block is, as e saw the allocator, a block of the address-order walk
Alive(e, block) == block \in SeqSet(HeapBlocks(Before(e)))

\* block is, as e saw the allocator, linked into the free list
Linked(e, block) == block \in SeqSet(ListNodes(Before(e), "avail"))

\* a frame resumes holding a block whose header a lower neighbour absorbed
Stale(e) == e.ev = "below" /\ ~Alive(e, e.block)

\* every el_remove_block of the merge took a linked free block of the walk,
\* and what a stale frame did after its look below changed nothing
MergeLogSafe(log) ==
    \A i \in 1..Len(log) :
        /\ log[i].ev = "remove" =>
              /\ Linked(log[i], log[i].block)
              /\ Alive(log[i], log[i].block)
              /\ State(Before(log[i]), log[i].block) = EL_AVAILABLE
        /\ Stale(log[i]) =>
              /\ log[i].ctl2 = log[i].ctl
              /\ log[i].mem2 = log[i].mem
              /\ HeapBlocks(After(log[i])) = HeapBlocks(Before(log[i]))
              /\ ListNodes(After(log[i]), "avail")
                    = ListNodes(Before(log[i]), "avail")

\* C21: during any el_free or grow, every el_remove_block(avail, b) made
\* inside el_merge_block_with_above is applied to a block b that is then
\* linked into the free list and a block of the address-order walk; when an
\* outer frame of the recursion resumes with a block whose header was
\* absorbed into a lower neighbour, its look at el_block_below through the
\* stale footer removes, resizes and re-inserts no block.
C21_MergeRemovesLinked ==
    /\ \A ptr \in live : MergeLogSafe(el_free(Cur, ptr).log)
    /\ MergeLogSafe(el_append_pages_to_heap(Cur, 1, "at_heap_end").s.log)

\* releasing one of the outstanding allocations merges it with the free
\* blocks on both sides below a used block: the outer frame resumes with its
\* block absorbed, finds the merged block below through the stale footer and
\* calls the merge on it
C21_Witness ==
    /\ Running
    /\ \E ptr \in live :
          LET log == el_free(Cur, ptr).log
          IN  /\ \E i \in 1..Len(log) :
                    /\ Stale(log[i])
                    /\ log[i].block = ptr - HeadBytes
                    /\ log[i].lowerer # NULL
                    /\ Alive(log[i], log[i].lowerer)
                    /\ State(Before(log[i]), log[i].lowerer) = EL_AVAILABLE
              /\ Cardinality({i \in 1..Len(log) : log[i].ev = "remove"}) = 4
              /\ MergeLogSafe(log)

====
